---- MODULE Spec2Model ----
(***************************************************************************)
(* Volatility explorer (src/volatility_explorer.py).                       *)
(*                                                                         *)
(* Two parts are modelled:                                                 *)
(*   - the Dash session: the four dcc.Store caches, the "calculate"        *)
(*     button, the two status texts and the graph, driven by the callbacks *)
(*     update_last_data (load) and update_graph (calculate);               *)
(*   - build_figure, the statistics routine, as an operator over exact     *)
(*     rational arithmetic.                                                *)
(*                                                                         *)
(* Python values are records tagged by a "type" field, so that None, str,  *)
(* int, float and dict values can be compared with one another the way     *)
(* Python's == compares them.  A str is a sequence of one-character        *)
(* strings.  A float input is held as twice its value (halves only).       *)
(* A standard deviation is held as its square (the sample variance): the   *)
(* square root is the only step of the code that is not rational, and it   *)
(* is strictly increasing, so it changes no equality and no definedness.   *)
(***************************************************************************)
EXTENDS Integers, Sequences, FiniteSets, TLC

(***************************************************************************)
(* Bounds of the model.                                                    *)
(***************************************************************************)
\* clicks on "load" and on "calculate" that a session is followed for
MaxLoadClicks == 3
MaxCalcClicks == 2
\* longest price series handed to build_figure in SpecStats
MaxLen == 4
\* prices of SpecStats range over 1 .. MaxPrice
MaxPrice == 3
MaxClicksEach == 2

(***************************************************************************)
(* Python values.                                                          *)
(***************************************************************************)
PyNone == [type |-> "None"]
PyStr(s) == [type |-> "str", s |-> s]
PyInt(v) == [type |-> "int", v |-> v]
PyFloat(twice) == [type |-> "float", twice |-> twice]
\* dash.no_update
no_update == [type |-> "no_update"]
\* raise PreventUpdate
PreventUpdate == [type |-> "PreventUpdate"]

\* bool(x) for the values that reach a truth test in the callbacks
Truthy(x) ==
    CASE x.type = "None"  -> FALSE
      [] x.type = "str"   -> Len(x.s) > 0
      [] x.type = "int"   -> x.v # 0
      [] x.type = "float" -> x.twice # 0
      [] OTHER            -> TRUE

(***************************************************************************)
(* str.upper, str.strip and str.split("T")[0] over the characters used.    *)
(***************************************************************************)
UpperChar(c) ==
    CASE c = "a" -> "A"
      [] c = "b" -> "B"
      [] OTHER   -> c

upper(s) == [i \in 1..Len(s) |-> UpperChar(s[i])]

IsSpace(c) == c = " "

RECURSIVE lstrip(_)
lstrip(s) ==
    IF s # <<>> /\ IsSpace(Head(s)) THEN lstrip(Tail(s)) ELSE s

RECURSIVE rstrip(_)
rstrip(s) ==
    IF s # <<>> /\ IsSpace(s[Len(s)]) THEN rstrip(SubSeq(s, 1, Len(s) - 1)) ELSE s

\* strip that removes nothing
strip_nothing(s) == s

strip(s) == rstrip(lstrip(s))

\* s.split("T")[0]: the characters before the first "T", all of s if none
RECURSIVE split_T_0(_)
split_T_0(s) ==
    IF s = <<>> \/ Head(s) = "T" THEN <<>> ELSE <<Head(s)>> \o split_T_0(Tail(s))

(***************************************************************************)
(* Inputs of a session.                                                    *)
(***************************************************************************)
\* the values the layout gives the inputs before the user touches them; the
\* default dates are datetime objects, which reach the callback as ISO
\* strings with a "T" part
DEFAULT_WINDOW == 21
DEFAULT_TICKER == PyStr(<<"B">>)
DEFAULT_START_DATE == <<"1", "T", "0">>
DEFAULT_END_DATE == <<"3", "T", "0">>

\* State("ticker", "value"): a text input, None when emptied
TickerInputs ==
    { PyNone, PyStr(<<>>), PyStr(<<" ">>), PyStr(<<"a", " ">>), DEFAULT_TICKER }

\* State("date-picker", "start_date"), State("date-picker", "end_date"):
\* "YYYY-MM-DD" once picked, the ISO default otherwise
DateRanges ==
    { <<DEFAULT_START_DATE, DEFAULT_END_DATE>>, <<(<<"1">>), (<<"3">>)>>,
      <<(<<"2">>), (<<"3">>)>> }

\* a pandas Series of closing prices, one per trading day
Series(vals) == [values |-> vals, index |-> [i \in 1..Len(vals) |-> i]]

\* what the price provider may answer to one request: nothing, or a series
Histories == { Series(<<>>), Series(<<2, 3>>), Series(<<4, 2, 5>>) }

(***************************************************************************)
(* fetch_data                                                              *)
(***************************************************************************)
\* history is the provider's answer to this request
fetch_data(ticker, start_date, end_date, history) ==
    IF Len(history.values) = 0 THEN PyNone ELSE history

(***************************************************************************)
(* update_last_data: the load callback.  Returns PreventUpdate or the      *)
(* 4-tuple of outputs, with the list of fetch_data calls it made (the       *)
(* arguments and the provider's answer).                                   *)
(***************************************************************************)
LoadTitle(ticker_clean, start_date, end_date) ==
    <<ticker_clean, start_date, end_date>>

LastDataMatches(last_data, ticker_clean, start_date, end_date) ==
    /\ Truthy(last_data)
    /\ last_data.ticker = ticker_clean
    /\ last_data.start_date = start_date
    /\ last_data.end_date = end_date

update_last_data(n, last_data, ticker, start_date, end_date, history) ==
    LET ticker_clean == IF Truthy(ticker) THEN strip(upper(ticker.s)) ELSE <<>>
        title == LoadTitle(ticker_clean, start_date, end_date)
        start == split_T_0(start_date)
        end == split_T_0(end_date)
        updated_last_data ==
            [type |-> "dict", ticker |-> ticker_clean,
             start_date |-> start, end_date |-> end]
        updated_prices == fetch_data(ticker_clean, start, end, history)
    IN  IF n = 0 THEN
            [ret |-> PreventUpdate, fetches |-> <<>>]
        ELSE IF ticker_clean = <<>> THEN
            [ret |-> <<no_update, no_update,
                       [text |-> "Error: ticker", title |-> <<>>], TRUE>>,
             fetches |-> <<>>]
        ELSE IF LastDataMatches(last_data, ticker_clean, start_date, end_date) THEN
            [ret |-> <<no_update, no_update,
                       [text |-> "Los datos ya estan cargados", title |-> title],
                       FALSE>>,
             fetches |-> <<>>]
        ELSE IF updated_prices = PyNone THEN
            [ret |-> <<updated_last_data, PyNone,
                       [text |-> "Error al cargar datos", title |-> <<>>], TRUE>>,
             fetches |-> << <<ticker_clean, start, end, history>> >>]
        ELSE
            [ret |-> <<updated_last_data,
                       [type |-> "dict", values |-> updated_prices.values,
                        index |-> updated_prices.index],
                       [text |-> "Datos cargados con exito", title |-> title],
                       FALSE>>,
             fetches |-> << <<ticker_clean, start, end, history>> >>]

(***************************************************************************)
(* Exact rationals n/d, kept in lowest terms with d > 0, stand for the     *)
(* float64 values of the series.                                           *)
(***************************************************************************)
Abs(a) == IF a < 0 THEN -a ELSE a

RECURSIVE GCD(_, _)
GCD(a, b) == IF b = 0 THEN a ELSE GCD(b, a % b)

Rat(n, d) ==
    LET s == IF d < 0 THEN -1 ELSE 1
        g == GCD(Abs(n), Abs(d))
    IN  [n |-> (s * n) \div g, d |-> (s * d) \div g]

RInt(k) == [n |-> k, d |-> 1]
RAdd(a, b) == Rat(a.n * b.d + b.n * a.d, a.d * b.d)
RSub(a, b) == Rat(a.n * b.d - b.n * a.d, a.d * b.d)
RMul(a, b) == Rat(a.n * b.n, a.d * b.d)
RDiv(a, b) == Rat(a.n * b.d, a.d * b.n)
RLess(a, b) == a.n * b.d < b.n * a.d

\* numpy.nan and a float that is a number
NaN == [type |-> "nan"]
Num(r) == [type |-> "num", r |-> r]
IsNaN(v) == v.type = "nan"

\* a - b on floats: NaN as soon as one side is NaN
FSub(a, b) == IF IsNaN(a) \/ IsNaN(b) THEN NaN ELSE Num(RSub(a.r, b.r))

(***************************************************************************)
(* pandas operations used by build_figure, on a sequence of rationals.     *)
(***************************************************************************)
\* prices.pct_change().dropna(): the first entry, which has no predecessor,
\* is NaN and is dropped
pct_change_dropna(prices) ==
    [i \in 1..(Len(prices) - 1) |->
        RSub(RDiv(RInt(prices[i + 1]), RInt(prices[i])), RInt(1))]

\* x[x > 0] and x[x < 0]
Positive(x) == SelectSeq(x, LAMBDA v : v.n > 0)
Negative(x) == SelectSeq(x, LAMBDA v : v.n < 0)

RECURSIVE RSum(_)
RSum(x) == IF x = <<>> THEN RInt(0) ELSE RAdd(Head(x), RSum(Tail(x)))

mean(x) == RDiv(RSum(x), RInt(Len(x)))

\* the population estimator (ddof = 0)
std_ddof0(x) ==
    IF Len(x) = 0 THEN NaN
    ELSE LET m == mean(x)
             sq == [i \in 1..Len(x) |-> RMul(RSub(x[i], m), RSub(x[i], m))]
         IN  Num(RDiv(RSum(sq), RInt(Len(x))))

\* Series.std(): the sample estimator (ddof = 1), NaN below 2 observations.
\* The value held is the variance, the square of the float the code holds.
std(x) ==
    IF Len(x) - 1 <= 0 THEN NaN
    ELSE LET m == mean(x)
             sq == [i \in 1..Len(x) |-> RMul(RSub(x[i], m), RSub(x[i], m))]
         IN  Num(RDiv(RSum(sq), RInt(Len(x) - 1)))

RECURSIVE Insert(_, _)
Insert(v, sorted) ==
    IF sorted = <<>> THEN <<v>>
    ELSE IF RLess(Head(sorted), v) THEN <<Head(sorted)>> \o Insert(v, Tail(sorted))
    ELSE <<v>> \o sorted

\* the observations left in the order of the series
Sorted_unsorted(x) == x

RECURSIVE Sorted(_)
Sorted(x) == IF x = <<>> THEN <<>> ELSE Insert(Head(x), Sorted(Tail(x)))

\* Series.quantile(q), linear interpolation between order statistics;
\* NaN on an empty series.  q is a rational.
quantile(x, q) ==
    IF Len(x) = 0 THEN NaN
    ELSE LET s == Sorted(x)
             h == RMul(RInt(Len(x) - 1), q)
             lo == h.n \div h.d
             frac == RSub(h, RInt(lo))
             hi == IF lo + 2 <= Len(x) THEN lo + 2 ELSE lo + 1
         IN  Num(RAdd(s[lo + 1], RMul(frac, RSub(s[hi], s[lo + 1]))))

Q75 == [n |-> 3, d |-> 4]
Q25 == [n |-> 1, d |-> 4]

\* the lambdas handed to .apply(): a statistic of the positive (negative)
\* part of the window, NaN when that part is empty
std_pos(x) == IF Len(Positive(x)) # 0 THEN std(Positive(x)) ELSE NaN
std_neg(x) == IF Len(Negative(x)) # 0 THEN std(Negative(x)) ELSE NaN
iqr_pos(x) ==
    IF Len(Positive(x)) # 0
    THEN FSub(quantile(Positive(x), Q75), quantile(Positive(x), Q25))
    ELSE NaN
iqr_neg(x) ==
    IF Len(Negative(x)) # 0
    THEN FSub(quantile(Negative(x), Q75), quantile(Negative(x), Q25))
    ELSE NaN
q75(x) == quantile(x, Q75)
q25(x) == quantile(x, Q25)

\* the method or the lambda that a rolling or expanding object applies to
\* each of its windows, by name
Apply(F, x) ==
    CASE F = "std"     -> std(x)
      [] F = "std_pos" -> std_pos(x)
      [] F = "std_neg" -> std_neg(x)
      [] F = "q75"     -> q75(x)
      [] F = "q25"     -> q25(x)
      [] F = "iqr_pos" -> iqr_pos(x)
      [] F = "iqr_neg" -> iqr_neg(x)

\* a window that starts one position late
RollingWindow_OffByOne(rets, window, i) ==
    SubSeq(rets, IF i - window + 2 > 1 THEN i - window + 2 ELSE 1, i)

\* the observations a trailing window of size window holds at position i
RollingWindow(rets, window, i) ==
    SubSeq(rets, IF i - window + 1 > 1 THEN i - window + 1 ELSE 1, i)

\* rolling with min_periods = 1
rolling_min_periods_1(rets, window, F) ==
    [i \in 1..Len(rets) |-> Apply(F, RollingWindow(rets, window, i))]

\* rets.rolling(window).<F>(): min_periods defaults to window, so a position
\* whose window is not full is NaN
rolling(rets, window, F) ==
    [i \in 1..Len(rets) |->
        IF Len(RollingWindow(rets, window, i)) >= window
        THEN Apply(F, RollingWindow(rets, window, i))
        ELSE NaN]

\* rets.expanding().<F>(): all observations up to i, min_periods = 1
expanding(rets, F) ==
    [i \in 1..Len(rets) |-> Apply(F, SubSeq(rets, 1, i))]

\* element-wise difference of two aligned series
SeriesSub(a, b) == [i \in 1..Len(a) |-> FSub(a[i], b[i])]

\* a scalar column of the DataFrame, broadcast along the index
Broadcast(v, n) == [i \in 1..n |-> v]

(***************************************************************************)
(* build_figure                                                            *)
(***************************************************************************)
\* the 21 columns of the DataFrame df
FigureData(prices, window) ==
    LET rets == pct_change_dropna(prices.values)
        n == Len(rets)
    IN  [date           |-> SubSeq(prices.index, 2, Len(prices.index)),
         price          |-> SubSeq(prices.values, 2, Len(prices.values)),
         rets           |-> rets,
         window_std     |-> rolling(rets, window, "std"),
         window_std_pos |-> rolling(rets, window, "std_pos"),
         window_std_neg |-> rolling(rets, window, "std_neg"),
         global_std     |-> Broadcast(std(rets), n),
         global_std_pos |-> Broadcast(std(Positive(rets)), n),
         global_std_neg |-> Broadcast(std(Negative(rets)), n),
         acum_std       |-> expanding(rets, "std"),
         acum_std_pos   |-> expanding(rets, "std_pos"),
         acum_std_neg   |-> expanding(rets, "std_neg"),
         window_iqr     |-> SeriesSub(rolling(rets, window, "q75"),
                                      rolling(rets, window, "q25")),
         window_iqr_pos |-> rolling(rets, window, "iqr_pos"),
         window_iqr_neg |-> rolling(rets, window, "iqr_neg"),
         global_iqr     |-> Broadcast(FSub(quantile(rets, Q75),
                                           quantile(rets, Q25)), n),
         global_iqr_pos |-> Broadcast(FSub(quantile(Positive(rets), Q75),
                                           quantile(Positive(rets), Q25)), n),
         global_iqr_neg |-> Broadcast(FSub(quantile(Negative(rets), Q75),
                                           quantile(Negative(rets), Q25)), n),
         acum_iqr_all   |-> SeriesSub(expanding(rets, "q75"), expanding(rets, "q25")),
         acum_iqr_pos   |-> expanding(rets, "iqr_pos"),
         acum_iqr_neg   |-> expanding(rets, "iqr_neg")]

\* one go.Scatter: the column it plots, its name, its line dash ("default"
\* when the trace sets no line) and its row
Trace(y, name, dash, row) == [y |-> y, name |-> name, dash |-> dash, row |-> row]

\* the traces in the order of the add_trace calls
FigureTraces(window) ==
    << Trace("price", <<"Precio de Cierre">>, "default", 1),
       Trace("rets", <<"Retorno %">>, "default", 2),
       Trace("window_std", <<"Std Todos (Ventana Movil)", window>>, "default", 3),
       Trace("window_std_pos", <<"Std Positivos (Ventana Movil)", window>>, "dash", 3),
       Trace("window_std_neg", <<"Std Negativos (Ventana Movil)", window>>, "dash", 3),
       Trace("global_std", <<"Std Global">>, "dot", 3),
       Trace("global_std_pos", <<"Std Global Positivos">>, "dot", 3),
       Trace("global_std_neg", <<"Std Global Negativos">>, "dot", 3),
       Trace("acum_std", <<"Std Acumulada">>, "longdash", 3),
       Trace("acum_std_pos", <<"Std Acumulada Positivos">>, "longdash", 3),
       Trace("acum_std_neg", <<"Std Acumulada Negativos">>, "longdash", 3),
       Trace("window_iqr", <<"IQR Todos (Ventana Movil)", window>>, "dot", 4),
       Trace("window_iqr_pos", <<"IQR Positivos (Ventana Movil)", window>>, "dash", 4),
       Trace("window_iqr_neg", <<"IQR Negativos (Ventana Movil)", window>>, "dash", 4),
       Trace("global_iqr", <<"IQR Global">>, "dot", 4),
       Trace("global_iqr_pos", <<"IQR Global Positivos">>, "dot", 4),
       Trace("global_iqr_neg", <<"IQR Global Negativos">>, "dot", 4),
       Trace("acum_iqr_all", <<"IQR Acumulado">>, "longdash", 4),
       Trace("acum_iqr_pos", <<"IQR Acumulado Positivos">>, "longdash", 4),
       Trace("acum_iqr_neg", <<"IQR Acumulado Negativos">>, "longdash", 4) >>

\* build_figure with the elapsed time printed in the subplot title as well
build_figure_elapsed_in_subplot_title(ticker, prices, window, elapsed) ==
    [type           |-> "Figure",
     subplot_title  |-> <<ticker, "Precio de Cierre", elapsed>>,
     df             |-> FigureData(prices, window),
     traces         |-> FigureTraces(window),
     title_text     |-> <<"Explorador de Volatilidad", ticker, elapsed>>]

\* elapsed is time() - start_time as the title prints it (hundredths of a
\* second): two readings of the clock, not a function of the arguments
build_figure(ticker, prices, window, elapsed) ==
    [type           |-> "Figure",
     subplot_title  |-> <<ticker, "Precio de Cierre">>,
     df             |-> FigureData(prices, window),
     traces         |-> FigureTraces(window),
     title_text     |-> <<"Explorador de Volatilidad", ticker, elapsed>>]

(***************************************************************************)
(* update_graph: the calculate callback.  Returns PreventUpdate or the     *)
(* 4-tuple of outputs, with the list of build_figure calls it made.        *)
(***************************************************************************)
\* State("window", "value"): a number input; None when empty, and whatever
\* a client sends otherwise
WindowInputs ==
    { PyNone, PyStr(<<"a", "b", "c">>), PyInt(0), PyFloat(1), PyInt(2),
      PyFloat(5), PyInt(3) }

\* readings of time() - start_time, in hundredths of a second
ElapsedReadings == {0, 1}

\* isinstance(window, (int, float))
IsNumber(window) == window.type \in {"int", "float"}

\* int(window): truncation towards zero
int(window) ==
    IF window.type = "int" THEN window.v
    ELSE IF window.twice >= 0 THEN window.twice \div 2
    ELSE -((-window.twice) \div 2)

CalcTitle(last_data, window_int) ==
    <<last_data.ticker, last_data.start_date, last_data.end_date, window_int>>

\* the validation without its lower bound
InvalidWindow_NoLowerBound(window) ==
    \/ ~Truthy(window)
    \/ ~IsNumber(window)

InvalidWindow(window) ==
    \/ ~Truthy(window)
    \/ ~IsNumber(window)
    \/ int(window) < 1

\* the size test off by one
WindowTooLarge_OffByOne(window_int, prices) == window_int > Len(prices.values) + 1

WindowTooLarge(window_int, prices) == window_int > Len(prices.values)

\* the redundancy test with the ticker comparison inverted
AlreadyUpToDate_TickerInverted(window_int, last_window, last_ticker_calculate, last_data) ==
    /\ PyInt(window_int) = last_window
    /\ last_ticker_calculate # PyStr(last_data.ticker)

AlreadyUpToDate(window_int, last_window, last_ticker_calculate, last_data) ==
    /\ PyInt(window_int) = last_window
    /\ last_ticker_calculate = PyStr(last_data.ticker)

update_graph(n, window, last_data, prices, last_window, last_ticker_calculate, elapsed) ==
    LET window_int == int(window)
        df_prices == [values |-> prices.values, index |-> prices.index]
    IN  IF n = 0 \/ ~Truthy(last_data) \/ ~Truthy(prices) THEN
            [ret |-> PreventUpdate, builds |-> <<>>]
        ELSE IF InvalidWindow(window) THEN
            [ret |-> <<no_update, no_update,
                       [text |-> "Error: ventana invalida", title |-> <<>>],
                       no_update>>,
             builds |-> <<>>]
        ELSE IF WindowTooLarge(window_int, df_prices) THEN
            [ret |-> <<no_update, no_update,
                       [text |-> "Error: ventana demasiado grande",
                        title |-> <<window_int, Len(df_prices.values)>>],
                       no_update>>,
             builds |-> <<>>]
        ELSE IF AlreadyUpToDate(window_int, last_window, last_ticker_calculate,
                                last_data) THEN
            [ret |-> <<no_update, no_update,
                       [text |-> "El grafico ya esta actualizado",
                        title |-> CalcTitle(last_data, window_int)],
                       no_update>>,
             builds |-> <<>>]
        ELSE
            [ret |-> <<PyInt(window_int),
                       build_figure(last_data.ticker, df_prices, window_int, elapsed),
                       [text |-> "Grafico actualizado con exito",
                        title |-> CalcTitle(last_data, window_int)],
                       PyStr(last_data.ticker)>>,
             builds |-> << <<last_data.ticker, df_prices, window_int>> >>]

(***************************************************************************)
(* The session: component properties of app.layout that the callbacks read *)
(* and write, and a record of the last run of each callback.               *)
(***************************************************************************)
VARIABLES
    n_load,                 \* "load".n_clicks (0 stands for None)
    n_calculate,            \* "calculate".n_clicks (0 stands for None)
    last_data,              \* dcc.Store "last_data"
    prices,                 \* dcc.Store "prices"
    last_window,            \* dcc.Store "last_window"
    last_ticker_calculate,  \* dcc.Store "last_ticker_calculate"
    loading_prices,         \* "loading-prices".children
    calculate_disabled,     \* "calculate".disabled
    figure,                 \* "loading-graph".figure
    loading_calculate,      \* "loading-calculate".children
    load_call,              \* last run of update_last_data: inputs and result
    calc_call,              \* last run of update_graph: inputs and result
    calculated,             \* load key and window of the last figure built
    an_prices,              \* analysis: the prices handed to build_figure
    an_window,              \* analysis: the window handed to build_figure
    an_figure,              \* analysis: the figure returned, None before
    an_again,               \* analysis: the figure of a second call with the
                            \* same arguments, None before
    pages,                  \* two clients: the page of each browser session
    alone,                  \* two clients: the page each session would have
                            \* had it been the only one
    acted                   \* two clients: the session that acted last, what
                            \* its callback returned, and what it would have
                            \* returned alone

session_vars ==
    <<n_load, n_calculate, last_data, prices, last_window, last_ticker_calculate,
      loading_prices, calculate_disabled, figure, loading_calculate,
      load_call, calc_call, calculated>>

analysis_vars == <<an_prices, an_window, an_figure, an_again>>

\* go.Figure(layout=...) of the dcc.Graph before any calculation
EmptyFigure == [type |-> "Figure", traces |-> <<>>]

SessionInit ==
    /\ n_load = 0
    /\ n_calculate = 0
    /\ last_data = PyNone
    /\ prices = PyNone
    /\ last_window = PyNone
    /\ last_ticker_calculate = PyNone
    /\ loading_prices = PyNone
    /\ calculate_disabled = TRUE
    /\ figure = EmptyFigure
    /\ loading_calculate = PyNone
    /\ load_call = PyNone
    /\ calc_call = PyNone
    /\ calculated = PyNone

\* the value a component property holds after a callback returned out for it
Output(old, out) == IF out = no_update THEN old ELSE out

\* Dash writes the outputs of a run r of update_last_data
WriteLoad(n, ticker, start_date, end_date, r) ==
    /\ load_call' = [n |-> n, ticker |-> ticker, start_date |-> start_date,
                     end_date |-> end_date, ret |-> r.ret,
                     fetches |-> r.fetches]
    /\ IF r.ret = PreventUpdate
       THEN UNCHANGED <<last_data, prices, loading_prices, calculate_disabled>>
       ELSE /\ last_data' = Output(last_data, r.ret[1])
            /\ prices' = Output(prices, r.ret[2])
            /\ loading_prices' = Output(loading_prices, r.ret[3])
            /\ calculate_disabled' = r.ret[4]
    /\ UNCHANGED <<last_window, last_ticker_calculate, figure,
                   loading_calculate, calc_call, calculated>>

\* Dash runs update_last_data with the given inputs and writes its outputs
RunLoad(n, ticker, start_date, end_date, history) ==
    WriteLoad(n, ticker, start_date, end_date,
              update_last_data(n, last_data, ticker, start_date, end_date, history))

\* Dash writes the outputs of a run r of update_graph
WriteCalculate(n, window, r) ==
    /\ calc_call' = [n |-> n, window |-> window, ret |-> r.ret,
                     builds |-> r.builds]
    /\ calculated' = IF r.builds # <<>>
                     THEN [last_data |-> last_data, window |-> r.builds[1][3]]
                     ELSE calculated
    /\ IF r.ret = PreventUpdate
       THEN UNCHANGED <<last_window, figure, loading_calculate,
                        last_ticker_calculate>>
       ELSE /\ last_window' = Output(last_window, r.ret[1])
            /\ figure' = Output(figure, r.ret[2])
            /\ loading_calculate' = Output(loading_calculate, r.ret[3])
            /\ last_ticker_calculate' = Output(last_ticker_calculate, r.ret[4])
    /\ UNCHANGED <<last_data, prices, loading_prices, calculate_disabled,
                   load_call>>

\* Dash runs update_graph with the given inputs and writes its outputs
RunCalculate(n, window, elapsed) ==
    WriteCalculate(n, window,
                   update_graph(n, window, last_data, prices, last_window,
                                last_ticker_calculate, elapsed))

\* the call Dash makes when the page is rendered: n_clicks is still None
LoadInitialCall ==
    /\ load_call = PyNone
    /\ n_load = 0
    /\ \E history \in Histories :
          RunLoad(n_load, DEFAULT_TICKER, DEFAULT_START_DATE, DEFAULT_END_DATE,
                  history)
    /\ UNCHANGED <<n_load, n_calculate>>

\* a click on "Cargar Datos"
LoadClick ==
    /\ load_call # PyNone
    /\ n_load < MaxLoadClicks
    /\ n_load' = n_load + 1
    /\ \E ticker \in TickerInputs, range \in DateRanges, history \in Histories :
          RunLoad(n_load', ticker, range[1], range[2], history)
    /\ UNCHANGED n_calculate

CalculateInitialCall ==
    /\ calc_call = PyNone
    /\ n_calculate = 0
    /\ \E elapsed \in ElapsedReadings :
          RunCalculate(n_calculate, PyInt(DEFAULT_WINDOW), elapsed)
    /\ UNCHANGED <<n_calculate, n_load>>

\* a click on "Calcular Volatilidad", which a disabled button does not take
CalculateClick ==
    /\ calc_call # PyNone
    /\ ~calculate_disabled
    /\ n_calculate < MaxCalcClicks
    /\ n_calculate' = n_calculate + 1
    /\ \E window \in WindowInputs, elapsed \in ElapsedReadings :
          RunCalculate(n_calculate', window, elapsed)
    /\ UNCHANGED n_load

SessionNext ==
    \/ LoadInitialCall
    \/ LoadClick
    \/ CalculateInitialCall
    \/ CalculateClick

(***************************************************************************)
(* The analysis: build_figure applied to every price series and window of  *)
(* a bounded set.                                                          *)
(***************************************************************************)
RECURSIVE SeqsOfLen(_, _)
SeqsOfLen(S, k) ==
    IF k = 0 THEN { <<>> }
    ELSE { <<v>> \o t : v \in S, t \in SeqsOfLen(S, k - 1) }

\* eight closes that rise and fall in turn, as 100, 102, 101, 105, 103, 108,
\* 107, 110 do
AlternatingPrices == <<2, 3, 2, 3, 2, 3, 2, 3>>

PriceSeqs ==
    UNION { SeqsOfLen(1..MaxPrice, k) : k \in 1..MaxLen } \cup { AlternatingPrices }

AnalysisIdle ==
    /\ an_prices = <<>>
    /\ an_window = 0
    /\ an_figure = PyNone
    /\ an_again = PyNone

\* the windows update_graph lets through for the series: 1 .. len(prices)
AnalysisInit ==
    /\ an_prices \in PriceSeqs
    /\ an_window \in 1..Len(an_prices)
    /\ an_figure = PyNone
    /\ an_again = PyNone

Analyze ==
    /\ an_figure = PyNone
    /\ \E elapsed \in ElapsedReadings :
          an_figure' = build_figure(DEFAULT_TICKER.s, Series(an_prices), an_window,
                                    elapsed)
    /\ UNCHANGED <<an_prices, an_window, an_again>>

\* build_figure called once more with the arguments of the first call; the
\* clock is read again
AnalyzeAgain ==
    /\ an_figure # PyNone
    /\ an_again = PyNone
    /\ \E elapsed \in ElapsedReadings :
          an_again' = build_figure(DEFAULT_TICKER.s, Series(an_prices), an_window,
                                   elapsed)
    /\ UNCHANGED <<an_prices, an_window, an_figure>>

(***************************************************************************)
(* Two browser sessions of the one server process.  The layout is rendered *)
(* once per client, the dcc.Store components are storage_type="memory",    *)
(* and the module keeps no variable that a callback assigns: a callback    *)
(* gets the State values of the page that sent the request and its outputs *)
(* go to that page.  The initial calls (n_clicks None) end in              *)
(* PreventUpdate and leave the page as rendered.                           *)
(***************************************************************************)
Sessions == {1, 2}

two_vars == <<pages, alone, acted>>

\* the page as app.layout renders it
NewPage ==
    [n_load |-> 0, n_calculate |-> 0, last_data |-> PyNone, prices |-> PyNone,
     last_window |-> PyNone, last_ticker_calculate |-> PyNone,
     loading_prices |-> PyNone, calculate_disabled |-> TRUE,
     figure |-> EmptyFigure, loading_calculate |-> PyNone]

TwoIdle ==
    /\ pages = [s \in Sessions |-> NewPage]
    /\ alone = [s \in Sessions |-> NewPage]
    /\ acted = PyNone

\* the inputs the two clients type: tickers, one picked date range, windows
ClientTickers == { PyStr(<<"a", " ">>), DEFAULT_TICKER }
ClientRange == <<(<<"1">>), (<<"3">>)>>
ClientWindows == { PyInt(2), PyInt(3) }
\* the one clock reading of the clients' calculations; only the title of the
\* figure depends on it
ClientElapsed == { 0 }

\* the stores whose data a callback run for session s receives, read as if
\* the server kept one copy of them for every client
ClientStores_shared(p, s) == p[1]

\* the stores whose data a callback run for session s receives: those of
\* the page of s
ClientStores(p, s) == p[s]

\* update_last_data run with the State values held in stores
LoadOf(stores, n, ticker, history) ==
    update_last_data(n, stores.last_data, ticker, ClientRange[1], ClientRange[2],
                     history)

\* update_graph run with the State values held in stores
CalculateOf(stores, n, window, elapsed) ==
    update_graph(n, window, stores.last_data, stores.prices, stores.last_window,
                 stores.last_ticker_calculate, elapsed)

\* the page after Dash wrote the outputs of a run r of update_last_data
PageAfterLoad(page, r) ==
    IF r.ret = PreventUpdate THEN page
    ELSE [page EXCEPT !.last_data = Output(@, r.ret[1]),
                      !.prices = Output(@, r.ret[2]),
                      !.loading_prices = Output(@, r.ret[3]),
                      !.calculate_disabled = r.ret[4]]

\* the page after Dash wrote the outputs of a run r of update_graph
PageAfterCalculate(page, r) ==
    IF r.ret = PreventUpdate THEN page
    ELSE [page EXCEPT !.last_window = Output(@, r.ret[1]),
                      !.figure = Output(@, r.ret[2]),
                      !.loading_calculate = Output(@, r.ret[3]),
                      !.last_ticker_calculate = Output(@, r.ret[4])]

ClicksOf(page) == page.n_load + page.n_calculate

\* session s clicks "Cargar Datos"
ClientLoadClick(s) ==
    /\ ClicksOf(pages[s]) < MaxClicksEach
    /\ \E ticker \in ClientTickers, history \in Histories :
          /\ pages' = [pages EXCEPT ![s] =
                 PageAfterLoad([@ EXCEPT !.n_load = @ + 1],
                               LoadOf(ClientStores(pages, s), pages[s].n_load + 1,
                                      ticker, history))]
          /\ alone' = [alone EXCEPT ![s] =
                 PageAfterLoad([@ EXCEPT !.n_load = @ + 1],
                               LoadOf(alone[s], alone[s].n_load + 1, ticker,
                                      history))]
          /\ acted' = [session |-> s,
                       ret |-> LoadOf(ClientStores(pages, s), pages[s].n_load + 1,
                                      ticker, history).ret,
                       alone |-> LoadOf(alone[s], alone[s].n_load + 1, ticker,
                                        history).ret]

\* session s clicks "Calcular Volatilidad", which a disabled button does not
\* take
ClientCalculateClick(s) ==
    /\ ClicksOf(pages[s]) < MaxClicksEach
    /\ ~pages[s].calculate_disabled
    /\ \E window \in ClientWindows, elapsed \in ClientElapsed :
          /\ pages' = [pages EXCEPT ![s] =
                 PageAfterCalculate([@ EXCEPT !.n_calculate = @ + 1],
                                    CalculateOf(ClientStores(pages, s),
                                                pages[s].n_calculate + 1, window,
                                                elapsed))]
          /\ alone' = [alone EXCEPT ![s] =
                 PageAfterCalculate([@ EXCEPT !.n_calculate = @ + 1],
                                    CalculateOf(alone[s], alone[s].n_calculate + 1,
                                                window, elapsed))]
          /\ acted' = [session |-> s,
                       ret |-> CalculateOf(ClientStores(pages, s),
                                           pages[s].n_calculate + 1, window,
                                           elapsed).ret,
                       alone |-> CalculateOf(alone[s], alone[s].n_calculate + 1,
                                             window, elapsed).ret]

TwoNext == \E s \in Sessions : ClientLoadClick(s) \/ ClientCalculateClick(s)

vars == <<session_vars, analysis_vars, two_vars>>

Init == SessionInit /\ AnalysisIdle /\ TwoIdle

Next == SessionNext /\ UNCHANGED <<analysis_vars, two_vars>>

Spec == Init /\ [][Next]_vars

StatsInit == SessionInit /\ AnalysisInit /\ TwoIdle

StatsNext == (Analyze \/ AnalyzeAgain) /\ UNCHANGED <<session_vars, two_vars>>

SpecStats == StatsInit /\ [][StatsNext]_vars

SpecTwo ==
    Init /\ [][TwoNext /\ UNCHANGED <<session_vars, analysis_vars>>]_vars

(***************************************************************************)
(* Vocabulary of the properties.                                           *)
(***************************************************************************)
\* the step is a click on "load" (on "calculate") and the callback has run
IsLoadClick == n_load' = n_load + 1
IsCalcClick == n_calculate' = n_calculate + 1

\* a ticker that is missing, empty or only whitespace
IsBlankTicker(t) == t = PyNone \/ \A i \in 1..Len(t.s) : t.s[i] = " "

\* a window that is missing, not a number, or below 1
IsBadWindow(w) ==
    \/ w = PyNone
    \/ w.type = "str"
    \/ w.type = "int" /\ w.v < 1
    \/ w.type = "float" /\ w.twice < 2

\* the text of the status message a run of a callback returned
ReturnedText(call) == IF call.ret = PreventUpdate THEN "" ELSE call.ret[3].text

\* the calculate step left the figure and the two calculate caches alone
\* and built no figure
CalcLeftAlone ==
    /\ figure' = figure
    /\ last_window' = last_window
    /\ last_ticker_calculate' = last_ticker_calculate
    /\ calc_call'.builds = <<>>

(***************************************************************************)
(* C1.  Two consecutive load clicks with the same non-blank ticker and the *)
(* same start and end date strings: the second returns the "already        *)
(* loaded" message and makes no call of fetch_data.                        *)
(***************************************************************************)
C1_SecondLoadShortCircuits ==
    [][ ( /\ IsLoadClick
          /\ load_call # PyNone
          /\ load_call.n > 0
          /\ ~IsBlankTicker(load_call'.ticker)
          /\ load_call'.ticker = load_call.ticker
          /\ load_call'.start_date = load_call.start_date
          /\ load_call'.end_date = load_call.end_date )
        => ( /\ ReturnedText(load_call') = "Los datos ya estan cargados"
             /\ load_call'.fetches = <<>> ) ]_vars

(***************************************************************************)
(* C2.  A calculate click whose load key (ticker and date range) and       *)
(* window are those of the last figure built returns the "already up to    *)
(* date" message, leaves figure, last_window and last_ticker_calculate     *)
(* unchanged and does not call build_figure.                               *)
(***************************************************************************)
SameAsCalculated(window) ==
    /\ calculated # PyNone
    /\ last_data = calculated.last_data
    /\ ~IsBadWindow(window)
    /\ int(window) = calculated.window

C2_RepeatedCalculateShortCircuits ==
    [][ (IsCalcClick /\ SameAsCalculated(calc_call'.window))
        => ( /\ ReturnedText(calc_call') = "El grafico ya esta actualizado"
             /\ CalcLeftAlone ) ]_vars

\* C2 as amended: the same, for a calculate click that finds a cached price
\* series holding at least window observations.
C2_RepeatedCalculateShortCircuitsWithData ==
    [][ ( /\ IsCalcClick
          /\ SameAsCalculated(calc_call'.window)
          /\ Truthy(prices)
          /\ int(calc_call'.window) <= Len(prices.values) )
        => ( /\ ReturnedText(calc_call') = "El grafico ya esta actualizado"
             /\ CalcLeftAlone ) ]_vars

\* a calculate click has just repeated the last figure's key and window
C2_Witness ==
    /\ calc_call # PyNone
    /\ calc_call.n > 0
    /\ ReturnedText(calc_call) = "El grafico ya esta actualizado"
    /\ calculated # PyNone
    /\ calculated.last_data = last_data
    /\ calculated.window = int(calc_call.window)
    /\ figure # EmptyFigure

(***************************************************************************)
(* C3.  A load click with a missing, empty or whitespace ticker makes no   *)
(* call of fetch_data, returns the ticker error, disables calculate and    *)
(* leaves last_data and prices unchanged.                                  *)
(***************************************************************************)
C3_BlankTickerRejected ==
    [][ (IsLoadClick /\ IsBlankTicker(load_call'.ticker))
        => ( /\ load_call'.fetches = <<>>
             /\ ReturnedText(load_call') = "Error: ticker"
             /\ calculate_disabled'
             /\ last_data' = last_data
             /\ prices' = prices ) ]_vars

\* a blank ticker was submitted over a loaded series: the series is kept
C3_Witness ==
    /\ load_call # PyNone
    /\ load_call.n > 0
    /\ IsBlankTicker(load_call.ticker)
    /\ load_call.ticker # PyNone
    /\ Len(load_call.ticker.s) > 0
    /\ Truthy(prices)
    /\ calculate_disabled

(***************************************************************************)
(* C4.  When the provider answers a load click with an empty series, the   *)
(* load returns the no-data error with prices None and calculate disabled; *)
(* and from a session whose last fetch gave no data, a load click leaves   *)
(* calculate disabled unless it fetches a non-empty series.                *)
(***************************************************************************)
FetchedEmpty(call) ==
    call.fetches # <<>> /\ Len(call.fetches[1][4].values) = 0
FetchedSeries(call) ==
    call.fetches # <<>> /\ Len(call.fetches[1][4].values) > 0

C4_NoDataKeepsCalculateDisabled ==
    [][ IsLoadClick
        => ( /\ FetchedEmpty(load_call')
                => ( /\ ReturnedText(load_call') = "Error al cargar datos"
                     /\ prices' = PyNone
                     /\ calculate_disabled' )
             /\ ( /\ Truthy(last_data)
                  /\ prices = PyNone
                  /\ calculate_disabled
                  /\ ~FetchedSeries(load_call') )
                => calculate_disabled' ) ]_vars

(***************************************************************************)
(* C5.  A calculate click whose window is missing, non-numeric or below 1  *)
(* returns the invalid-window error, leaves figure, last_window and        *)
(* last_ticker_calculate unchanged and does not call build_figure.         *)
(***************************************************************************)
C5_InvalidWindowRejected ==
    [][ (IsCalcClick /\ IsBadWindow(calc_call'.window))
        => ( /\ ReturnedText(calc_call') = "Error: ventana invalida"
             /\ CalcLeftAlone ) ]_vars

C7_BuildFigurePreconditions ==
    [][ (calc_call' # calc_call)
        => ( /\ \A i \in 1..Len(calc_call'.builds) :
                  LET b == calc_call'.builds[i]
                  IN  /\ Len(b[2].values) >= 1
                      /\ b[2] = [values |-> prices.values, index |-> prices.index]
                      /\ b[3] \in Int
                      /\ 1 <= b[3]
                      /\ b[3] <= Len(b[2].values)
             /\ (~Truthy(last_data) \/ ~Truthy(prices))
                => ( /\ CalcLeftAlone
                     /\ loading_calculate' = loading_calculate ) ) ]_vars

\* a figure was built with the window equal to the number of price points
C7_Witness ==
    /\ calc_call # PyNone
    /\ calc_call.builds # <<>>
    /\ calc_call.builds[1][3] = Len(calc_call.builds[1][2].values)
    /\ figure = calc_call.ret[2]

(***************************************************************************)
(* Vocabulary of the properties of build_figure.                           *)
(***************************************************************************)
Analyzed == an_figure # PyNone
an_rets == an_figure.df.rets
Scopes == {"window", "acum", "global"}
Subsets == {"all", "pos", "neg"}

\* the column of df holding the standard deviation (the IQR) of a scope and
\* a subset
StdColumn(scope, subset) ==
    CASE scope = "window" /\ subset = "all" -> an_figure.df.window_std
      [] scope = "window" /\ subset = "pos" -> an_figure.df.window_std_pos
      [] scope = "window" /\ subset = "neg" -> an_figure.df.window_std_neg
      [] scope = "acum" /\ subset = "all"   -> an_figure.df.acum_std
      [] scope = "acum" /\ subset = "pos"   -> an_figure.df.acum_std_pos
      [] scope = "acum" /\ subset = "neg"   -> an_figure.df.acum_std_neg
      [] scope = "global" /\ subset = "all" -> an_figure.df.global_std
      [] scope = "global" /\ subset = "pos" -> an_figure.df.global_std_pos
      [] scope = "global" /\ subset = "neg" -> an_figure.df.global_std_neg

IqrColumn(scope, subset) ==
    CASE scope = "window" /\ subset = "all" -> an_figure.df.window_iqr
      [] scope = "window" /\ subset = "pos" -> an_figure.df.window_iqr_pos
      [] scope = "window" /\ subset = "neg" -> an_figure.df.window_iqr_neg
      [] scope = "acum" /\ subset = "all"   -> an_figure.df.acum_iqr_all
      [] scope = "acum" /\ subset = "pos"   -> an_figure.df.acum_iqr_pos
      [] scope = "acum" /\ subset = "neg"   -> an_figure.df.acum_iqr_neg
      [] scope = "global" /\ subset = "all" -> an_figure.df.global_iqr
      [] scope = "global" /\ subset = "pos" -> an_figure.df.global_iqr_pos
      [] scope = "global" /\ subset = "neg" -> an_figure.df.global_iqr_neg

\* the positions of the returns that a scope looks at from position i
ScopePositions(scope, i) ==
    CASE scope = "window" -> { j \in 1..i : j > i - an_window }
      [] scope = "acum"   -> 1..i
      [] scope = "global" -> 1..Len(an_rets)

\* how many of them belong to the subset
Qualifying(scope, subset, i) ==
    Cardinality({ j \in ScopePositions(scope, i) :
                    CASE subset = "all" -> TRUE
                      [] subset = "pos" -> an_rets[j].n > 0
                      [] subset = "neg" -> an_rets[j].n < 0 })

\* the trailing window is full at position i (always, for the other scopes)
WindowFull(scope, i) == scope = "window" => i >= an_window

Cases == Scopes \X Subsets

(***************************************************************************)
(* C8.  For window >= 1 and len(prices) >= window + 1 there are            *)
(* len(prices) - 1 returns, and the windowed standard deviation of all     *)
(* returns is undefined at the return indices 0 .. window-2 and defined    *)
(* from index window-1 on: len(prices) - window defined values.            *)
(***************************************************************************)
DefinedFromWindowOn ==
    /\ Len(an_rets) = Len(an_prices) - 1
    /\ Len(an_figure.df.window_std) = Len(an_rets)
    /\ \A i \in 1..Len(an_rets) :
          IsNaN(an_figure.df.window_std[i]) <=> (i <= an_window - 1)
    /\ Cardinality({ i \in 1..Len(an_rets) : ~IsNaN(an_figure.df.window_std[i]) })
          = Len(an_prices) - an_window

C8_WindowedStdDefinedTail ==
    (Analyzed /\ an_window >= 1 /\ Len(an_prices) >= an_window + 1)
        => DefinedFromWindowOn

\* C8 as amended: the same for window >= 2; with window = 1 the windowed
\* standard deviation of all returns is undefined at every index.
C8_WindowedStdDefinedTailFromTwo ==
    (Analyzed /\ Len(an_prices) >= an_window + 1)
        => /\ an_window >= 2 => DefinedFromWindowOn
           /\ an_window = 1
                => /\ Len(an_rets) = Len(an_prices) - 1
                   /\ \A i \in 1..Len(an_rets) : IsNaN(an_figure.df.window_std[i])

\* eight prices, window 3: seven returns, first defined value at index 2
C8_Witness ==
    /\ Analyzed
    /\ an_prices = AlternatingPrices
    /\ an_window = 3
    /\ Len(an_rets) = 7
    /\ IsNaN(an_figure.df.window_std[2])
    /\ ~IsNaN(an_figure.df.window_std[3])

C10_GlobalStdIsFinalWindowAndExpanding ==
    (Analyzed /\ Len(an_rets) >= 1)
        => LET last == Len(an_rets)
           IN  \A subset \in Subsets :
                  /\ StdColumn("acum", subset)[last] = StdColumn("global", subset)[last]
                  /\ an_window = last
                        => StdColumn("window", subset)[last]
                              = StdColumn("global", subset)[last]

\* window = len(returns) and the three global standard deviations are numbers
C10_Witness ==
    /\ Analyzed
    /\ Len(an_rets) >= 1
    /\ an_window = Len(an_rets)
    /\ \A subset \in Subsets :
          /\ ~IsNaN(StdColumn("global", subset)[1])
          /\ StdColumn("window", subset)[Len(an_rets)] = StdColumn("global", subset)[1]

(***************************************************************************)
(* build_figure called twice with the same arguments                       *)
(***************************************************************************)
AnalyzedTwice == an_figure # PyNone /\ an_again # PyNone

\* the figure without the elapsed time its title ends with
WithoutElapsed(fig) == [fig EXCEPT !.title_text = SubSeq(@, 1, 2)]

C13_IqrNonNegative ==
    Analyzed =>
        \A scope \in Scopes :
            \A i \in 1..Len(IqrColumn(scope, "all")) :
                ~IsNaN(IqrColumn(scope, "all")[i]) =>
                    /\ IqrColumn(scope, "all")[i].r.d > 0
                    /\ IqrColumn(scope, "all")[i].r.n >= 0

\* a series whose returns fall and rise, with a window of at least two
\* returns: each of the three IQRs is defined and positive somewhere
C13_Witness ==
    /\ Analyzed
    /\ an_window >= 2
    /\ \E i \in 1..(Len(an_rets) - 1) : RLess(an_rets[i + 1], an_rets[i])
    /\ \E i \in 1..(Len(an_rets) - 1) : RLess(an_rets[i], an_rets[i + 1])
    /\ \A scope \in Scopes :
          \E i \in 1..Len(IqrColumn(scope, "all")) :
              /\ ~IsNaN(IqrColumn(scope, "all")[i])
              /\ IqrColumn(scope, "all")[i].r.n > 0

(***************************************************************************)
(* Line styles of the dispersion traces                                    *)
(***************************************************************************)
\* the traces of the two dispersion panels (rows 3 and 4)
DispersionTraces ==
    { i \in 1..Len(an_figure.traces) : an_figure.traces[i].row \in {3, 4} }

\* the scope of a dispersion trace, from the column it draws
TraceScope(trace) ==
    CASE trace.y \in {"window_std", "window_std_pos", "window_std_neg",
                      "window_iqr", "window_iqr_pos", "window_iqr_neg"} -> "window"
      [] trace.y \in {"acum_std", "acum_std_pos", "acum_std_neg",
                      "acum_iqr_all", "acum_iqr_pos", "acum_iqr_neg"} -> "acum"
      [] trace.y \in {"global_std", "global_std_pos", "global_std_neg",
                      "global_iqr", "global_iqr_pos", "global_iqr_neg"} -> "global"

\* C14: among the 18 dispersion traces, two traces carry the same dash style
\* exactly when they are of the same scope.
C14_DashKeyedToScope ==
    Analyzed =>
        /\ Cardinality(DispersionTraces) = 18
        /\ \A i \in DispersionTraces, j \in DispersionTraces :
              (TraceScope(an_figure.traces[i]) = TraceScope(an_figure.traces[j]))
                  <=> (an_figure.traces[i].dash = an_figure.traces[j].dash)

(***************************************************************************)
(* What an enabled calculate button and a successful calculate stand for   *)
(***************************************************************************)
\* C15: whenever the calculate button is enabled, the cached price series is
\* a non-empty series (never None).
C15_EnabledImpliesPrices ==
    ~calculate_disabled => (Truthy(prices) /\ Len(prices.values) >= 1)

\* the figure on display is one that build_figure returns for the cached
\* ticker and price series and the given window, whatever the clock read
DisplaysFigureOf(fig, window) ==
    \E elapsed \in ElapsedReadings :
        fig = build_figure(last_data.ticker,
                           [values |-> prices.values, index |-> prices.index],
                           int(window), elapsed)

CalcSucceeded(call) ==
    ReturnedText(call) \in {"Grafico actualizado con exito",
                            "El grafico ya esta actualizado"}

\* the last load fetched a series for the ticker of the figure on display
\* over another date range
LoadedSameTickerOtherRange ==
    /\ calculated # PyNone
    /\ load_call # PyNone
    /\ ReturnedText(load_call) = "Datos cargados con exito"
    /\ last_data.ticker = calculated.last_data.ticker
    /\ last_data # calculated.last_data

\* C16: after a calculate click that returns 'updated' or 'already up to
\* date', the figure on display is the one built from the cached price
\* series, the cached ticker and the requested window; and a calculate click
\* that follows a successful load of the same ticker over another date
\* range and succeeds has called build_figure.
C16_FigureIsOfCachedSeries ==
    [][ (IsCalcClick /\ CalcSucceeded(calc_call'))
        => ( /\ DisplaysFigureOf(figure', calc_call'.window)
             /\ LoadedSameTickerOtherRange => calc_call'.builds # <<>> ) ]_vars

====
